---- MODULE Spec2Model ----
(***************************************************************************)
(* A model of the MS5611 barometric pressure sensor driver (src/src/lib.rs).*)
(*                                                                         *)
(* The driver loads eight PROM words over I2C, validates them with the     *)
(* CRC-4 of application note AN520, and afterwards offers reset and        *)
(* read_sample.  read_sample sequences two conversions on the bus and      *)
(* turns the two raw 24-bit results into temperature and pressure with     *)
(* fixed-point arithmetic.                                                 *)
(*                                                                         *)
(* TLC's integers are 32 bits wide, the driver's arithmetic is i64 and     *)
(* i32.  Wide integers are therefore sequences of NBytes bytes, least      *)
(* significant first, in two's complement; every operation of the driver   *)
(* is computed exactly on them and then narrowed to the width the code     *)
(* uses, which is where an overflow shows.                                 *)
(***************************************************************************)
EXTENDS Integers, Sequences, FiniteSets, TLC

VARIABLES
    build,      \* "debug" (overflow checks on) or "release" (wrapping)
    dev,        \* "uninit", "ready", "failed" (new returned Err), "aborted" (panic)
    address,    \* Ms5611.address
    prom,       \* Ms5611.prom: the six coefficients, or <<>> when no device exists
    promWords,  \* the eight words the bus presented to the construction
    promFail,   \* which of the eight PROM reads failed in the construction (0: none)
    lastOp,     \* the operation that ran last: "none", "new", "reset", "read_sample"
    calls,      \* the collaborator calls (bus and delay) the last operation issued
    inject,     \* the bus fault injected into the last operation: [at, err]
    adc,        \* the raw values the bus held if the last operation was read_sample: <<d1, d2>>
    osrSel,     \* the oversampling level if the last operation was read_sample
    comp,       \* the compensation the last operation computed: <<c>>, or <<>>
    result      \* what the last operation returned

vars == <<build, dev, address, prom, promWords, promFail, lastOp,
          calls, inject, adc, osrSel, comp, result>>

----------------------------------------------------------------------------
(* Wide two's complement integers.                                         *)

NBytes == 16

SignByte(b) == IF b >= 128 THEN 255 ELSE 0

\* A function on 1..NBytes as the tuple of its values (evaluated once).
Tup(f) == SubSeq(f, 1, NBytes)

RECURSIVE Pow2(_)
Pow2(n) == IF n < 8 THEN <<1, 2, 4, 8, 16, 32, 64, 128>>[n + 1] ELSE 256 * Pow2(n - 8)

\* A TLC integer (an i32) as a wide integer.
FromInt(n) ==
    Tup([i \in 1..NBytes |->
            IF i <= 4 THEN (n \div Pow2(8 * (i - 1))) % 256
            ELSE IF n < 0 THEN 255 ELSE 0])

IsNeg(a) == a[NBytes] >= 128

\* Whether the wide integer a is the sign extension of its low w bytes.
Fits(a, w) == \A i \in (w + 1)..NBytes : a[i] = SignByte(a[w])

\* a narrowed to w bytes and sign-extended again: an `as` cast, or a wrapping result.
Wrap(a, w) == Tup([i \in 1..NBytes |-> IF i <= w THEN a[i] ELSE SignByte(a[w])])

\* A wide integer that fits 4 bytes as a TLC integer.
ToInt(a) ==
    IF a[4] >= 128
    THEN -((255 - a[1]) + 256 * (255 - a[2]) + 65536 * (255 - a[3])
           + 16777216 * (255 - a[4])) - 1
    ELSE a[1] + 256 * a[2] + 65536 * a[3] + 16777216 * a[4]

\* a + b + carry from byte i on, modulo 2^(8 * NBytes).
RECURSIVE AddFrom(_, _, _, _)
AddFrom(a, b, i, carry) ==
    IF i > NBytes THEN <<>>
    ELSE <<(a[i] + b[i] + carry) % 256>>
         \o AddFrom(a, b, i + 1, (a[i] + b[i] + carry) \div 256)

Add(a, b) == AddFrom(a, b, 1, 0)

Not(a) == Tup([i \in 1..NBytes |-> 255 - a[i]])

Sub(a, b) == AddFrom(a, Not(b), 1, 1)

\* The sum of the byte products a[j] * b[i - j + 1] of column i, for j in lo..hi.
RECURSIVE ColSum(_, _, _, _, _)
ColSum(a, b, i, lo, hi) ==
    IF lo > hi THEN 0
    ELSE IF lo = hi THEN a[lo] * b[i - lo + 1]
    ELSE LET mid == (lo + hi) \div 2
         IN  ColSum(a, b, i, lo, mid) + ColSum(a, b, i, mid + 1, hi)

\* Byte sh of every column sum, moved up sh places.
MulRow(col, sh) ==
    Tup([i \in 1..NBytes |->
            IF i <= sh THEN 0 ELSE (col[i - sh] \div Pow2(8 * sh)) % 256])

\* The sum of the three byte rows of the column sums (each is below 2^24).
MulCols(col) == Add(Add(MulRow(col, 0), MulRow(col, 1)), MulRow(col, 2))

\* Schoolbook multiplication by columns, modulo 2^(8 * NBytes).
Mul(a, b) == MulCols(Tup([i \in 1..NBytes |-> ColSum(a, b, i, 1, i)]))

\* Arithmetic shift right by n bits (the sign is kept).
Sar(a, n) ==
    LET q == n \div 8
        r == n % 8
        ext(j) == IF j <= NBytes THEN a[j] ELSE SignByte(a[NBytes])
    IN  Tup([i \in 1..NBytes |->
            (ext(i + q) \div Pow2(r)) + (ext(i + q + 1) % Pow2(r)) * Pow2(8 - r)])

\* Shift left by n bits.
Shl(a, n) ==
    LET q == n \div 8
        r == n % 8
        lo(j) == IF j >= 1 THEN a[j] ELSE 0
    IN  Tup([i \in 1..NBytes |->
            ((lo(i - q) * Pow2(r)) % 256) + (lo(i - q - 1) \div Pow2(8 - r))])

\* Signed comparison of wide integers whose difference is representable.
Less(a, b) == IsNeg(Sub(a, b))

----------------------------------------------------------------------------
(* The register map and the oversampling table.                            *)

OsrLevels == {"Opt256", "Opt512", "Opt1024", "Opt2048", "Opt4096"}

\* get_delay with the conversion times of the doc comment of read_sample,
\* 1 ms to 18 ms for both conversions (a variant that C8 must tell from the
\* driver).
get_delay_doc(osr) ==
    CASE osr = "Opt256"  -> 1
      [] osr = "Opt512"  -> 2
      [] osr = "Opt1024" -> 3
      [] osr = "Opt2048" -> 5
      [] osr = "Opt4096" -> 9

\* Osr::get_delay, in milliseconds.
get_delay(osr) ==
    CASE osr = "Opt256"  -> 1
      [] osr = "Opt512"  -> 2
      [] osr = "Opt1024" -> 3
      [] osr = "Opt2048" -> 5
      [] osr = "Opt4096" -> 10

addr_modifier(osr) ==
    CASE osr = "Opt256"  -> 0
      [] osr = "Opt512"  -> 2
      [] osr = "Opt1024" -> 4
      [] osr = "Opt2048" -> 6
      [] osr = "Opt4096" -> 8

\* Ms5611Reg::addr: 0x1e, 0x40, 0x50, 0x00, 0xa0.
RegAddr(reg) ==
    CASE reg = "Reset"   -> 30
      [] reg = "D1"      -> 64
      [] reg = "D2"      -> 80
      [] reg = "AdcRead" -> 0
      [] reg = "Prom"    -> 160

\* i2c_addr.unwrap_or(0x77); the option is <<>> (None) or <<a>> (Some(a)).
DefaultAddress == 119

UnwrapAddress(i2c_addr) == IF i2c_addr = <<>> THEN DefaultAddress ELSE i2c_addr[1]

----------------------------------------------------------------------------
(* The collaborator calls: the I2C bus and the delay.                      *)

BusWrite(addr, bytes)        == [op |-> "write", addr |-> addr, out |-> bytes, len |-> 0, ms |-> 0]
BusWriteRead(addr, bytes, n) == [op |-> "write_read", addr |-> addr, out |-> bytes, len |-> n, ms |-> 0]
DelayMs(ms)                  == [op |-> "delay", addr |-> 0, out |-> <<>>, len |-> 0, ms |-> ms]

IsBusCall(c) == c.op \in {"write", "write_read"}

\* The calls an operation issues when its at-th bus transaction fails (at = 0:
\* none fails): every call up to and including the failing one, since each bus
\* call is followed by `?`.
RECURSIVE IssuedFrom(_, _, _, _)
IssuedFrom(cs, at, i, seen) ==
    IF i > Len(cs) THEN <<>>
    ELSE LET n == seen + (IF IsBusCall(cs[i]) THEN 1 ELSE 0)
         IN  IF at # 0 /\ IsBusCall(cs[i]) /\ n = at
             THEN <<cs[i]>>
             ELSE <<cs[i]>> \o IssuedFrom(cs, at, i + 1, n)

Issued(cs, at) == IssuedFrom(cs, at, 1, 0)

NoResult == [kind |-> "none", err |-> "", temperature |-> 0, pressure |-> 0]
OkUnit   == [kind |-> "ok", err |-> "", temperature |-> 0, pressure |-> 0]
Err(e)   == [kind |-> "err", err |-> e, temperature |-> 0, pressure |-> 0]
Panic    == [kind |-> "panic", err |-> "", temperature |-> 0, pressure |-> 0]

----------------------------------------------------------------------------
(* read_prom: the eight PROM words and the CRC-4 of AN520.                 *)

RECURSIVE Xor(_, _, _)
Xor(a, b, n) ==
    IF n = 0 THEN 0
    ELSE (((a % 2) + (b % 2)) % 2) + 2 * Xor(a \div 2, b \div 2, n - 1)

\* CrcShift with the polynomial 0x1800 in place of 0x3000 (a variant that C2
\* must tell from the driver).
CrcShiftPoly1800(c) ==
    IF (c \div 32768) % 2 = 1
    THEN Xor((c * 2) % 65536, 6144, 16)
    ELSE (c * 2) % 65536

\* One turn of the loop of crc_accumulate_byte, on a u16.
CrcShift(c) ==
    IF (c \div 32768) % 2 = 1
    THEN Xor((c * 2) % 65536, 12288, 16)
    ELSE (c * 2) % 65536

RECURSIVE CrcShifts(_, _)
CrcShifts(c, n) == IF n = 0 THEN c ELSE CrcShift(CrcShifts(c, n - 1))

crc_accumulate_byte(crc_check, byte) == CrcShifts(Xor(crc_check, byte, 16), 8)

\* The two bytes the bus delivers for a PROM word, high byte first.
BusBytes(w) == <<w \div 256, w % 256>>

\* BigEndian::read_u16.
ReadU16(buf) == buf[1] * 256 + buf[2]

\* The bytes read_prom accumulates, in order: crc_accumulate_buf2 on the
\* buffers of words 0 to 6 (buf[0], then buf[1]), then buf[0] of word 7, then 0.
RECURSIVE CrcBytes(_, _)
CrcBytes(words, n) ==
    IF n = 0 THEN <<>>
    ELSE IF n = 8 THEN CrcBytes(words, 7) \o <<BusBytes(words[8])[1], 0>>
    ELSE CrcBytes(words, n - 1) \o BusBytes(words[n])

\* crc_check after one more byte, appended to the values it took so far.
CrcAppend(t, byte) == Append(t, crc_accumulate_byte(t[Len(t)], byte))

\* The values crc_check takes: 0, then its value after each of the first n bytes.
RECURSIVE CrcTrace(_, _)
CrcTrace(bytes, n) ==
    IF n = 0 THEN <<0>> ELSE CrcAppend(CrcTrace(bytes, n - 1), bytes[n])

MkProm(c1, c2, c3, c4, c5, c6) ==
    [pressure_sensitivity |-> c1, pressure_offset |-> c2,
     temp_coef_pressure_sensitivity |-> c3, temp_coef_pressure_offset |-> c4,
     temp_ref |-> c5, temp_coef_temp |-> c6]

\* The calls of read_prom on a reliable bus: words at 0xa0, 0xa2, ... 0xae.
PromCalls(addr) ==
    [k \in 1..8 |-> BusWriteRead(addr, <<RegAddr("Prom") + 2 * (k - 1)>>, 2)]

\* The accumulator after crc_accumulate_byte on every byte, shifted right by 12.
CrcCheck(bytes) == CrcTrace(bytes, Len(bytes))[Len(bytes) + 1] \div 4096

\* PromChecked comparing only three bits of the checksum (a variant that C3
\* must tell from the driver).
PromCheckedLow3(words, crc, crc_check) ==
    IF crc % 8 # crc_check % 8 THEN [res |-> Panic, prom |-> <<>>]
    ELSE [res |-> OkUnit,
          prom |-> <<MkProm(ReadU16(BusBytes(words[2])), ReadU16(BusBytes(words[3])),
                            ReadU16(BusBytes(words[4])), ReadU16(BusBytes(words[5])),
                            ReadU16(BusBytes(words[6])), ReadU16(BusBytes(words[7])))>>]

\* PromChecked without the comparison (a variant that C7 must tell from the
\* driver).
PromUnchecked(words, crc, crc_check) ==
    [res |-> OkUnit,
     prom |-> <<MkProm(ReadU16(BusBytes(words[2])), ReadU16(BusBytes(words[3])),
                       ReadU16(BusBytes(words[4])), ReadU16(BusBytes(words[5])),
                       ReadU16(BusBytes(words[6])), ReadU16(BusBytes(words[7])))>>]

\* The tail of read_prom: the comparison with the stored nibble, and the Prom.
PromChecked(words, crc, crc_check) ==
    IF crc # crc_check THEN [res |-> Panic, prom |-> <<>>]
    ELSE [res |-> OkUnit,
          prom |-> <<MkProm(ReadU16(BusBytes(words[2])), ReadU16(BusBytes(words[3])),
                            ReadU16(BusBytes(words[4])), ReadU16(BusBytes(words[5])),
                            ReadU16(BusBytes(words[6])), ReadU16(BusBytes(words[7])))>>]

\* read_prom on a bus that presents `words` and fails the at-th read with e.
\* The value is [res, prom]: what is returned, and the Prom when it is Ok.
read_prom(words, at, e) ==
    IF at # 0 THEN [res |-> Err(e), prom |-> <<>>]
    ELSE PromChecked(words, ReadU16(BusBytes(words[8])) % 16,
                     CrcCheck(CrcBytes(words, 8)))

----------------------------------------------------------------------------
(* read_sample: the conversion sequence and the compensation arithmetic.   *)

\* The three bytes the bus delivers for a 24-bit conversion result.
AdcBytes(v) == <<v \div 65536, (v \div 256) % 256, v % 256>>

\* BigEndian::read_i32 of the 4-byte buffer whose bytes 1..3 were just read
\* and whose byte 0 is still the 0 it was initialised with.
ReadI32(buf) ==
    ToInt([i \in 1..NBytes |-> IF i <= 4 THEN buf[5 - i] ELSE SignByte(buf[1])])

\* SampleCalls with the temperature conversion started before the pressure
\* result is read (a variant that C4 must tell from the driver).
SampleCallsEager(addr, osr) ==
    << BusWrite(addr, <<RegAddr("D1") + addr_modifier(osr)>>),
       DelayMs(get_delay(osr)),
       BusWrite(addr, <<RegAddr("D2") + addr_modifier(osr)>>),
       BusWriteRead(addr, <<RegAddr("AdcRead")>>, 3),
       DelayMs(get_delay(osr)),
       BusWriteRead(addr, <<RegAddr("AdcRead")>>, 3) >>

\* The calls of read_sample on a reliable bus.
SampleCalls(addr, osr) ==
    << BusWrite(addr, <<RegAddr("D1") + addr_modifier(osr)>>),
       DelayMs(get_delay(osr)),
       BusWriteRead(addr, <<RegAddr("AdcRead")>>, 3),
       BusWrite(addr, <<RegAddr("D2") + addr_modifier(osr)>>),
       DelayMs(get_delay(osr)),
       BusWriteRead(addr, <<RegAddr("AdcRead")>>, 3) >>

I32Bytes == 4
I64Bytes == 8

\* One checked operation: the exact value x of the operation named `name`, and
\* the width w in bytes of the type the code computes it in.
Step(name, x, w) == [name |-> name, x |-> x, w |-> w]

\* Whether some checked operation of a sequence of steps left its width.
Overflows(steps) == \E k \in 1..Len(steps) : ~Fits(steps[k].x, steps[k].w)

\* let mut t2 = 0i32; let mut off2 = 0i64; let mut sens2 = 0i64.
NoCorrection ==
    [steps |-> <<>>, t2 |-> FromInt(0), off2 |-> FromInt(0), sens2 |-> FromInt(0)]

\* The low temperature branch (temperature < 2000), from the exact values of
\* dt * dt, temperature - 2000, its square and five times its square; the last
\* three are i32 operations.
LowTempOf(dtdt, x_x, sq_x, f_x) ==
    [steps |-> << Step("dt * dt", dtdt, I64Bytes),
                  Step("temperature - 2000", x_x, I32Bytes),
                  Step("(temperature - 2000).pow(2)", sq_x, I32Bytes),
                  Step("5 * (temperature - 2000).pow(2)", f_x, I32Bytes) >>,
     t2    |-> Wrap(Sar(Wrap(dtdt, I64Bytes), 31), I32Bytes),
     off2  |-> Sar(Wrap(f_x, I32Bytes), 1),
     sens2 |-> Sar(Sar(Wrap(f_x, I32Bytes), 1), 1)]

LowTempSq(dtdt, x_x, sq_x) ==
    LowTempOf(dtdt, x_x, sq_x, Mul(FromInt(5), Wrap(sq_x, I32Bytes)))

LowTempX(dtdt, x_x) ==
    LowTempSq(dtdt, x_x, Mul(Wrap(x_x, I32Bytes), Wrap(x_x, I32Bytes)))

LowTemp(dt, temperature) == LowTempX(Mul(dt, dt), Sub(temperature, FromInt(2000)))

\* What the very low temperature branch (temperature < -1500) adds, in i64,
\* from the exact values of temperature + 1500, its square, and 7 and 11 times
\* its square.
VeryLowTempOf(y_x, sq_x, o_x, s_x) ==
    [steps |-> << Step("temperature + 1500", y_x, I64Bytes),
                  Step("(temperature + 1500).pow(2)", sq_x, I64Bytes),
                  Step("7 * (temperature + 1500).pow(2)", o_x, I64Bytes),
                  Step("11 * (temperature + 1500).pow(2)", s_x, I64Bytes) >>,
     off2  |-> Wrap(o_x, I64Bytes),
     sens2 |-> Sar(Wrap(s_x, I64Bytes), 1)]

VeryLowTempSq(y_x, sq_x) ==
    VeryLowTempOf(y_x, sq_x, Mul(FromInt(7), Wrap(sq_x, I64Bytes)),
                             Mul(FromInt(11), Wrap(sq_x, I64Bytes)))

VeryLowTempY(y_x) ==
    VeryLowTempSq(y_x, Mul(Wrap(y_x, I64Bytes), Wrap(y_x, I64Bytes)))

VeryLowTemp(temperature) == VeryLowTempY(Add(temperature, FromInt(1500)))

\* Lines 230-239: dt and the first-order temperature, offset and sensitivity.
\* A name ending in _x is the exact value of a checked operation.
FirstOrderOf(p, q) ==
    q @@ [temp1 |-> Wrap(q.t_x, I32Bytes),
          off   |-> Wrap(q.o_x, I64Bytes),
          sens  |-> Wrap(q.s_x, I64Bytes)]

FirstOrderSums(p, q) ==
    FirstOrderOf(p, q @@
        [t_x |-> Add(FromInt(2000),
                     Wrap(Sar(Wrap(q.m6_x, I64Bytes), 23), I32Bytes)),
         o_x |-> Add(Wrap(Shl(FromInt(p.pressure_offset), 16), I64Bytes),
                     Sar(Wrap(q.m4_x, I64Bytes), 7)),
         s_x |-> Add(Wrap(Shl(FromInt(p.pressure_sensitivity), 15), I64Bytes),
                     Sar(Wrap(q.m3_x, I64Bytes), 8))])

FirstOrderProducts(p, q) ==
    FirstOrderSums(p, q @@
        [m6_x |-> Mul(q.dt, FromInt(p.temp_coef_temp)),
         m4_x |-> Mul(q.dt, FromInt(p.temp_coef_pressure_offset)),
         m3_x |-> Mul(q.dt, FromInt(p.temp_coef_pressure_sensitivity))])

FirstOrderDt(p, dt_x) ==
    FirstOrderProducts(p, [dt_x |-> dt_x, dt |-> Wrap(dt_x, I64Bytes)])

FirstOrder(p, d2) ==
    FirstOrderDt(p, Sub(FromInt(d2), Wrap(Shl(FromInt(p.temp_ref), 8), I64Bytes)))

\* Lines 241-260: the second-order terms.  low and vlow are the two branches
\* (NoCorrection when not taken); o2_x and s2_x are the two `+=`.
SecondOrderOf(q) ==
    q @@ [t2    |-> q.low.t2,
          off2  |-> IF q.isVLow THEN Wrap(q.o2_x, I64Bytes) ELSE q.low.off2,
          sens2 |-> IF q.isVLow THEN Wrap(q.s2_x, I64Bytes) ELSE q.low.sens2]

SecondOrderSums(q) ==
    SecondOrderOf(q @@ [o2_x |-> Add(q.low.off2, q.vlow.off2),
                        s2_x |-> Add(q.low.sens2, q.vlow.sens2)])

SecondOrderBranches(q) ==
    SecondOrderSums(q @@
        [low  |-> IF q.isLow THEN LowTemp(q.dt, q.temp1) ELSE NoCorrection,
         vlow |-> IF q.isVLow THEN VeryLowTemp(q.temp1) ELSE NoCorrection])

\* SecondOrder with the low temperature branch taken below 2008 instead of
\* 2000 (a variant that C9 must tell from the driver).
SecondOrderLate(q) ==
    SecondOrderBranches(q @@ [isLow  |-> Less(q.temp1, FromInt(2008)),
                              isVLow |-> Less(q.temp1, FromInt(-1500))])

SecondOrder(q) ==
    SecondOrderBranches(q @@ [isLow  |-> Less(q.temp1, FromInt(2000)),
                              isVLow |-> Less(q.temp1, FromInt(-1500))])

\* Lines 262-267: the corrections applied, and the pressure.
PressureOf(q) ==
    q @@ [temperature |-> Wrap(q.tf_x, I32Bytes),
          pressure    |-> Wrap(Sar(Wrap(q.pd_x, I64Bytes), 15), I32Bytes)]

PressureDiff(q) ==
    PressureOf(q @@
        [pd_x |-> Sub(Sar(Wrap(q.pm_x, I64Bytes), 21), Wrap(q.of_x, I64Bytes))])

PressureProduct(q, d1) ==
    PressureDiff(q @@ [pm_x |-> Mul(FromInt(d1), Wrap(q.sf_x, I64Bytes))])

Corrected(q, d1) ==
    PressureProduct(q @@ [tf_x |-> Sub(q.temp1, q.t2),
                          of_x |-> Sub(q.off, q.off2),
                          sf_x |-> Sub(q.sens, q.sens2)], d1)

\* The checked operations in the order the code performs them.
StepsOf(q) ==
    << Step("d2 - (temp_ref << 8)", q.dt_x, I64Bytes),
       Step("dt * temp_coef_temp", q.m6_x, I64Bytes),
       Step("2000 + ...", q.t_x, I32Bytes),
       Step("dt * temp_coef_pressure_offset", q.m4_x, I64Bytes),
       Step("(pressure_offset << 16) + ...", q.o_x, I64Bytes),
       Step("dt * temp_coef_pressure_sensitivity", q.m3_x, I64Bytes),
       Step("(pressure_sensitivity << 15) + ...", q.s_x, I64Bytes) >>
    \o q.low.steps
    \o q.vlow.steps
    \o (IF q.isVLow THEN << Step("off2 += ...", q.o2_x, I64Bytes),
                            Step("sens2 += ...", q.s2_x, I64Bytes) >>
        ELSE <<>>)
    \o << Step("temperature -= t2", q.tf_x, I32Bytes),
          Step("offset -= off2", q.of_x, I64Bytes),
          Step("sens -= sens2", q.sf_x, I64Bytes),
          Step("d1 * sens", q.pm_x, I64Bytes),
          Step("(... >> 21) - offset", q.pd_x, I64Bytes) >>

WithSteps(q) == q @@ [steps |-> StepsOf(q), ovf |-> Overflows(StepsOf(q))]

\* Lines 227-267 of read_sample on the Prom p, d1 (an i32) and the raw d2.
\* Every field is the wide integer the variable of that name holds; temp1 is
\* the temperature before the second-order correction, steps lists the checked
\* operations, and ovf says that one of them left the width of its type (a
\* panic in a debug build, a wrapped value in a release build).
Compensate(p, d1, d2) == WithSteps(Corrected(SecondOrder(FirstOrder(p, d2)), d1))

\* The Ms5611Sample, in hundredths (the fields before the division by 100.0).
Sample(c) ==
    [kind |-> "ok", err |-> "", temperature |-> ToInt(c.temperature),
     pressure |-> ToInt(c.pressure)]

\* What read_sample returns once both conversions are read and compensated to
\* c: the value is [res, comp], comp being the compensation that was computed.
Sampled(c, bld) ==
    [res |-> IF bld = "debug" /\ c.ovf THEN Panic ELSE Sample(c), comp |-> <<c>>]

\* read_sample without the `?` on the temperature command write (a variant
\* that C5 must tell from the driver).
read_sample_unchecked(p, d1, d2, at, e, bld) ==
    IF at \in {1, 2, 4} THEN [res |-> Err(e), comp |-> <<>>]
    ELSE Sampled(Compensate(p, ReadI32(<<0>> \o AdcBytes(d1)),
                               ReadI32(<<0>> \o AdcBytes(d2))), bld)

\* read_sample on a bus that holds d1 and d2 and fails its at-th transaction
\* with e, in a build with overflow checks (debug) or without (release).
read_sample(p, d1, d2, at, e, bld) ==
    IF at # 0 THEN [res |-> Err(e), comp |-> <<>>]
    ELSE Sampled(Compensate(p, ReadI32(<<0>> \o AdcBytes(d1)),
                               ReadI32(<<0>> \o AdcBytes(d2))), bld)

----------------------------------------------------------------------------
(* reset and new.                                                          *)

\* The calls of reset on a reliable bus.
ResetCalls(addr) == << BusWrite(addr, <<RegAddr("Reset")>>), DelayMs(50) >>

\* reset on a bus that fails its at-th transaction with e.
reset(at, e) == IF at # 0 THEN Err(e) ELSE OkUnit

\* How an operation that returned r leaves a device that was in state d.
DevAfter(d, r) == IF r.kind = "panic" THEN "aborted" ELSE d

----------------------------------------------------------------------------
(* The environment: what the PROM holds, what the bus does to it, which    *)
(* transaction fails, and what the two conversions deliver.                *)

Builds == {"debug", "release"}

\* The word set of application note AN520, whose checksum nibble is 0xB.
AN520Words == <<12594, 13108, 13622, 14136, 14656, 16706, 17220, 17675>>

\* A PROM that holds the six coefficients cs, a zero word 0, and in word 7 the
\* checksum nibble n the factory programs for them.
RomOf(cs, n) == <<0>> \o cs \o <<n>>

\* The coefficients of the datasheet's worked example.
DatasheetWords == RomOf(<<40127, 36924, 23317, 23282, 33464, 28312>>, 0)

\* A bus glitch: none, or one flipped bit <<word, bit>> in the words as read.
Glitches == {<<>>} \cup {<<k, b>> : k \in 1..8, b \in 0..15}

FlipBit(w, b) == IF (w \div Pow2(b)) % 2 = 1 THEN w - Pow2(b) ELSE w + Pow2(b)

Glitched(rom, g) ==
    IF g = <<>> THEN rom
    ELSE [k \in 1..8 |-> IF k = g[1] THEN FlipBit(rom[k], g[2]) ELSE rom[k]]

Errors == {"Nack", "ArbitrationLoss"}

NoFault == [at |-> 0, err |-> ""]

\* The faults of an operation with n bus transactions.
Faults(n) == {NoFault} \cup {[at |-> k, err |-> e] : k \in 1..n, e \in Errors}

\* None, or the alternate address 0x76.
AddressOptions == {<<>>, <<118>>}

\* PROMs at the corners of the coefficients: the datasheet's example, every
\* coefficient 65535, and the two alternations of 65535 and 0, each with its
\* checksum nibble.
CompRoms ==
    { DatasheetWords,
      RomOf(<<65535, 65535, 65535, 65535, 65535, 65535>>, 12),
      RomOf(<<65535, 0, 65535, 0, 65535, 0>>, 8),
      RomOf(<<0, 65535, 0, 65535, 0, 65535>>, 4) }

\* What the bus presents to a construction: the AN520 words under every
\* glitch, and the PROMs above as programmed.
WordSets == {Glitched(AN520Words, g) : g \in Glitches} \cup CompRoms

\* The raw conversions of the datasheet's worked example.
RawD1 == {9085466}
RawD2 == {8569150}

----------------------------------------------------------------------------
(* The state machine.                                                      *)

Init ==
    /\ build \in Builds
    /\ dev = "uninit"
    /\ address = 0
    /\ prom = <<>>
    /\ promWords = <<>>
    /\ promFail = 0
    /\ lastOp = "none"
    /\ calls = <<>>
    /\ inject = NoFault
    /\ adc = <<>>
    /\ osrSel = ""
    /\ comp = <<>>
    /\ result = NoResult

\* Ms5611::new once read_prom has returned r.
NewWith(words, a, f, r) ==
    /\ dev = "uninit"
    /\ dev' = (IF r.res.kind = "ok" THEN "ready"
               ELSE IF r.res.kind = "panic" THEN "aborted" ELSE "failed")
    /\ address' = (IF r.res.kind = "ok" THEN a ELSE 0)
    /\ prom' = r.prom
    /\ promWords' = words
    /\ promFail' = f.at
    /\ lastOp' = "new"
    /\ calls' = Issued(PromCalls(a), f.at)
    /\ inject' = f
    /\ result' = r.res
    /\ UNCHANGED <<build, adc, osrSel, comp>>

\* Ms5611::new(i2c, i2c_addr) on a bus that presents `words` and has fault f.
New(words, i2c_addr, f) ==
    NewWith(words, UnwrapAddress(i2c_addr), f, read_prom(words, f.at, f.err))

\* Ms5611::reset(delay) with fault f.
Reset(f) ==
    /\ dev = "ready"
    /\ lastOp' = "reset"
    /\ calls' = Issued(ResetCalls(address), f.at)
    /\ inject' = f
    /\ adc' = <<>>
    /\ osrSel' = ""
    /\ comp' = <<>>
    /\ result' = reset(f.at, f.err)
    /\ UNCHANGED <<build, dev, address, prom, promWords, promFail>>

\* Ms5611::read_sample once it has returned r.
ReadSampleWith(osr, d1, d2, f, r) ==
    /\ lastOp' = "read_sample"
    /\ calls' = Issued(SampleCalls(address, osr), f.at)
    /\ inject' = f
    /\ adc' = <<d1, d2>>
    /\ osrSel' = osr
    /\ comp' = r.comp
    /\ result' = r.res
    /\ dev' = DevAfter(dev, r.res)
    /\ UNCHANGED <<build, address, prom, promWords, promFail>>

\* Ms5611::read_sample(osr, delay) with fault f, the conversions giving d1, d2.
ReadSample(osr, d1, d2, f) ==
    /\ dev = "ready"
    /\ ReadSampleWith(osr, d1, d2, f,
                      read_sample(prom[1], d1, d2, f.at, f.err, build))

\* The caller drops the device, or gives up a failed construction.
Discard ==
    /\ dev \in {"ready", "failed"}
    /\ dev' = "uninit"
    /\ address' = 0
    /\ prom' = <<>>
    /\ promWords' = <<>>
    /\ promFail' = 0
    /\ lastOp' = "none"
    /\ calls' = <<>>
    /\ inject' = NoFault
    /\ adc' = <<>>
    /\ osrSel' = ""
    /\ comp' = <<>>
    /\ result' = NoResult
    /\ UNCHANGED build

DoNew ==
    \E words \in WordSets, a \in AddressOptions, f \in Faults(8) :
        New(words, a, f)

DoReset == \E f \in Faults(1) : Reset(f)

DoReadSample ==
    \E osr \in OsrLevels, d1 \in RawD1, d2 \in RawD2, f \in Faults(4) :
        ReadSample(osr, d1, d2, f)

Next == DoNew \/ DoReset \/ DoReadSample \/ Discard

Spec == Init /\ [][Next]_vars

----------------------------------------------------------------------------
(* The compensation over the corners of its input space: a device that was *)
(* constructed without a fault, and conversions that deliver any of the    *)
(* raw values below.                                                        *)

\* Raw pressures: the least, the datasheet's example, the greatest 24-bit value.
CompD1 == {0, 9085466, 16777215}

\* Raw temperatures: the least and greatest 24-bit values, the datasheet's
\* example (TEMP 2007), and for the datasheet's calibration the raw values at
\* which TEMP is -1501, -1500, 1999 and 2000.
CompD2 == {0, 7529763, 7529764, 8566783, 8566784, 8569150, 16777215}

\* The state a fault-free Ms5611::new(i2c, None) leaves on the words given.
InitComp ==
    /\ build \in Builds
    /\ \E words \in CompRoms :
          /\ promWords = words
          /\ prom = read_prom(words, 0, "").prom
          /\ result = read_prom(words, 0, "").res
          /\ result.kind = "ok"
    /\ dev = "ready"
    /\ address = DefaultAddress
    /\ promFail = 0
    /\ lastOp = "new"
    /\ calls = PromCalls(DefaultAddress)
    /\ inject = NoFault
    /\ adc = <<>>
    /\ osrSel = ""
    /\ comp = <<>>

DoConvert ==
    \E d1 \in CompD1, d2 \in CompD2 : ReadSample("Opt4096", d1, d2, NoFault)

NextComp == DoReset \/ DoConvert

SpecComp == InitComp /\ [][NextComp]_vars

----------------------------------------------------------------------------
(* The properties.  What a property compares the driver with is written    *)
(* here from the property's own words, with the wide integers and the      *)
(* environment above but with none of the operators that model the         *)
(* driver's functions.                                                     *)

\* The CRC-4 as the specification words it: a 16-bit accumulator starting at
\* 0, polynomial 0x3000, the bytes of words 0-6 high byte first, then the
\* high byte of word 7, then a zero byte, the result shifted right by 12.
StatedBytes(words) ==
    [i \in 1..16 |->
        IF i = 16 THEN 0
        ELSE IF i % 2 = 1 THEN words[(i + 1) \div 2] \div 256
        ELSE words[i \div 2] % 256]

StatedBit(acc) ==
    IF acc >= 32768 THEN Xor((2 * acc) % 65536, 12288, 16) ELSE 2 * acc

StatedByte(acc, byte) ==
    StatedBit(StatedBit(StatedBit(StatedBit(
        StatedBit(StatedBit(StatedBit(StatedBit(Xor(acc, byte, 16)))))))))

StatedNext(t, byte) == Append(t, StatedByte(t[Len(t)], byte))

RECURSIVE StatedTrace(_, _)
StatedTrace(bytes, n) ==
    IF n = 0 THEN <<0>> ELSE StatedNext(StatedTrace(bytes, n - 1), bytes[n])

StatedCrc(words) == StatedTrace(StatedBytes(words), 16)[17] \div 4096

\* The low nibble of word 7 equals the CRC-4.
StatedValid(words) == StatedCrc(words) = words[8] % 16

\* C1 to C6 as the specification orders the coefficients: words 1 to 6.
StatedCoefficients(words) ==
    [pressure_sensitivity |-> words[2], pressure_offset |-> words[3],
     temp_coef_pressure_sensitivity |-> words[4],
     temp_coef_pressure_offset |-> words[5],
     temp_ref |-> words[6], temp_coef_temp |-> words[7]]

\* A construction all of whose eight reads succeeded has just returned.
Constructed == lastOp = "new" /\ promFail = 0

\* C1: when all eight words are read but the computed checksum differs from
\* the low nibble of word 7, new returns a recoverable checksum error that
\* is not a transport error, and the process is not aborted.
C1_ChecksumErrorReturned ==
    (Constructed /\ ~StatedValid(promWords))
        => /\ result.kind = "err"
           /\ result.err \notin Errors
           /\ dev = "failed"

\* C2: every word set whose word 7 carries the CRC-4 in its low nibble, read
\* without a bus failure, is accepted, and the six coefficients are words 1
\* to 6 unchanged and in that order.
C2_ValidSetAccepted ==
    (Constructed /\ StatedValid(promWords))
        => /\ result.kind = "ok"
           /\ dev = "ready"
           /\ prom = <<StatedCoefficients(promWords)>>

\* The AN520 word set was read with no fault and a device exists.
C2_Witness ==
    /\ Constructed
    /\ promWords = AN520Words
    /\ StatedValid(promWords)
    /\ dev = "ready"

\* The words read are the accepted AN520 words with bit b of word k - 1 flipped.
FlippedAt(k, b) == Constructed /\ promWords = Glitched(AN520Words, <<k, b>>)

\* Bit b of word k - 1 enters the checksum comparison: every bit of words 0 to
\* 6, the high byte of word 7, and the checksum nibble itself.
Covered(k, b) == k <= 7 \/ b >= 8 \/ b <= 3

\* No coefficients are returned and no device exists.
NothingLoaded == result.kind # "ok" /\ prom = <<>> /\ dev # "ready"

\* C3 as stated: one flipped bit in any of the eight words, at any position,
\* makes the loader signal the mismatch instead of returning coefficients.
C3_EveryFlipDetected ==
    \A k \in 1..8, b \in 0..15 : FlippedAt(k, b) => NothingLoaded

\* C3 amended: one flipped bit in words 0 to 6, in the high byte of word 7 or
\* in the checksum nibble makes the loader take its mismatch branch, so that
\* no coefficients are returned; a flip of bits 4 to 7 of word 7, which the
\* CRC replaces by zero, is accepted with the coefficients unchanged.
C3_CoveredFlipDetected ==
    \A k \in 1..8, b \in 0..15 :
        FlippedAt(k, b) =>
            IF Covered(k, b) THEN NothingLoaded
            ELSE /\ result.kind = "ok"
                 /\ prom = <<StatedCoefficients(AN520Words)>>

\* Bit 0 of the checksum nibble was flipped and the loader refused the words.
C3_Witness == FlippedAt(8, 0) /\ NothingLoaded

\* C7: whenever a device exists, whatever reset and read_sample did since,
\* its coefficients are words 1 to 6 of the words read at its construction,
\* all eight reads of that construction succeeded, and those words passed the
\* checksum comparison; without a device there are no coefficients.
C7_CalibrationValidated ==
    /\ dev \in {"uninit", "failed"} => prom = <<>>
    /\ prom # <<>> =>
          /\ promFail = 0
          /\ StatedValid(promWords)
          /\ prom = <<StatedCoefficients(promWords)>>

\* A device whose last read_sample failed on the bus still holds its Prom.
C7_Witness ==
    /\ dev = "ready"
    /\ lastOp = "read_sample"
    /\ result.kind = "err"
    /\ prom = <<StatedCoefficients(promWords)>>

\* The offset and the wait of each oversampling level, as the specification
\* tabulates them.
StatedOffset(level) ==
    CASE level = "Opt256" -> 0 [] level = "Opt512" -> 2 [] level = "Opt1024" -> 4
      [] level = "Opt2048" -> 6 [] level = "Opt4096" -> 8

StatedWait(level) ==
    CASE level = "Opt256" -> 1 [] level = "Opt512" -> 2 [] level = "Opt1024" -> 3
      [] level = "Opt2048" -> 5 [] level = "Opt4096" -> 10

\* The six collaborator calls of a ReadSample(level) on the device at addr.
StatedSequence(addr, level) ==
    << [op |-> "write", addr |-> addr, out |-> <<64 + StatedOffset(level)>>, len |-> 0, ms |-> 0],
       [op |-> "delay", addr |-> 0, out |-> <<>>, len |-> 0, ms |-> StatedWait(level)],
       [op |-> "write_read", addr |-> addr, out |-> <<0>>, len |-> 3, ms |-> 0],
       [op |-> "write", addr |-> addr, out |-> <<80 + StatedOffset(level)>>, len |-> 0, ms |-> 0],
       [op |-> "delay", addr |-> 0, out |-> <<>>, len |-> 0, ms |-> StatedWait(level)],
       [op |-> "write_read", addr |-> addr, out |-> <<0>>, len |-> 3, ms |-> 0] >>

\* read_sample has just returned a sample.
Sampling == lastOp = "read_sample" /\ result.kind = "ok"

\* C4: a successful ReadSample(level) issues exactly the pressure command,
\* the wait, the 3-byte result read, the temperature command, the wait and the
\* 3-byte result read, in this order and nothing else.
C4_SampleSequence == Sampling => calls = StatedSequence(address, osrSel)

\* A sample was taken at level 1024 from the device at the alternate address.
C4_Witness == Sampling /\ osrSel = "Opt1024" /\ address = 118 /\ Len(calls) = 6

\* Where the four bus transactions of ReadSample stand among its six calls.
StatedPosition == <<1, 3, 4, 6>>

\* C5: when one of the four bus transactions of ReadSample fails, the call
\* returns that error unchanged and no sample, the failed transaction is the
\* last call it issued (no retry, no later transaction or delay), and the
\* device stays usable.
C5_TransportErrorReturned ==
    (lastOp = "read_sample" /\ inject.at \in 1..4)
        => /\ result = [kind |-> "err", err |-> inject.err,
                        temperature |-> 0, pressure |-> 0]
           /\ calls = SubSeq(StatedSequence(address, osrSel), 1,
                             StatedPosition[inject.at])
           /\ comp = <<>>
           /\ dev = "ready"

\* The temperature command write failed with a loss of arbitration.
C5_Witness ==
    /\ lastOp = "read_sample"
    /\ inject = [at |-> 3, err |-> "ArbitrationLoss"]
    /\ result.kind = "err"
    /\ Len(calls) = 4

\* What Reset does: one write of 0x1E and one delay of 50 ms when the write
\* succeeds, the write alone and its error when it fails.
StatedReset ==
    lastOp = "reset" =>
        IF inject.at = 0
        THEN /\ result.kind = "ok"
             /\ calls = << [op |-> "write", addr |-> address, out |-> <<30>>, len |-> 0, ms |-> 0],
                           [op |-> "delay", addr |-> 0, out |-> <<>>, len |-> 0, ms |-> 50] >>
        ELSE /\ result = [kind |-> "err", err |-> inject.err,
                          temperature |-> 0, pressure |-> 0]
             /\ calls = << [op |-> "write", addr |-> address, out |-> <<30>>, len |-> 0, ms |-> 0] >>

\* A ReadSample on a reliable transport that follows a Reset succeeds and
\* issues its full sequence.
StatedAfterReset ==
    (lastOp = "reset" /\ lastOp' = "read_sample" /\ inject'.at = 0)
        => /\ result'.kind = "ok"
           /\ calls' = StatedSequence(address', osrSel')

\* C6: Reset issues one write of the byte 0x1E and then one delay of 50 ms
\* and succeeds, or returns the error of the write with no delay and no
\* retry; and the ReadSample that follows a Reset, successful or not, on a
\* reliable transport succeeds with its full sequence.
C6_ResetThenSample == [](StatedReset) /\ [][StatedAfterReset]_vars

\* The total of the delays among a sequence of calls.
RECURSIVE TotalDelay(_, _)
TotalDelay(cs, n) == IF n = 0 THEN 0 ELSE TotalDelay(cs, n - 1) + cs[n].ms

\* The total delay per call the specification gives for each level.
StatedTotal(level) ==
    CASE level = "Opt256" -> 2 [] level = "Opt512" -> 4 [] level = "Opt1024" -> 6
      [] level = "Opt2048" -> 10 [] level = "Opt4096" -> 20

\* C8: the delays of one successful ReadSample add up to twice the wait of
\* its level: 2, 4, 6, 10 and 20 ms for levels 256 to 4096.
C8_TotalDelay ==
    Sampling => /\ TotalDelay(calls, Len(calls)) = 2 * StatedWait(osrSel)
                /\ TotalDelay(calls, Len(calls)) = StatedTotal(osrSel)
                /\ TotalDelay(calls, Len(calls)) \in 2..20

\* A sample at level 4096 was taken with 20 ms of delay.
C8_Witness == Sampling /\ osrSel = "Opt4096" /\ TotalDelay(calls, Len(calls)) = 20

\* The compensation as the specification writes it, on integers of unbounded
\* size: dT = D2 - C5 * 2^8, TEMP = 2000 + ((dT * C6) >> 23),
\* OFF = C2 * 2^16 + ((C4 * dT) >> 7), SENS = C1 * 2^15 + ((C3 * dT) >> 8),
\* P = (((D1 * SENS) >> 21) - OFF) >> 15.
StatedDT(p, d2) == Sub(FromInt(d2), Shl(FromInt(p.temp_ref), 8))

StatedTemp(p, dT) == Add(FromInt(2000), Sar(Mul(dT, FromInt(p.temp_coef_temp)), 23))

StatedOff(p, dT) ==
    Add(Shl(FromInt(p.pressure_offset), 16),
        Sar(Mul(FromInt(p.temp_coef_pressure_offset), dT), 7))

StatedSens(p, dT) ==
    Add(Shl(FromInt(p.pressure_sensitivity), 15),
        Sar(Mul(FromInt(p.temp_coef_pressure_sensitivity), dT), 8))

StatedPressure(d1, off, sens) == Sar(Sub(Sar(Mul(FromInt(d1), sens), 21), off), 15)

Square(x) == Mul(x, x)

AtLeast(a, n) == ~Less(a, FromInt(n))

Positive(a) == ~IsNeg(a) /\ a # FromInt(0)

\* (5 * (TEMP - 2000)^2) >> 1.
StatedOff2(temp) == Sar(Mul(FromInt(5), Square(Sub(temp, FromInt(2000)))), 1)

\* T2 = OFF2 = SENS2 = 0 in the compensation c, and the sample returned holds
\* the first-order temperature and pressure.
FirstOrderReturned(p, d1, dT, temp, c) ==
    /\ c.t2 = FromInt(0)
    /\ c.off2 = FromInt(0)
    /\ c.sens2 = FromInt(0)
    /\ result.kind = "ok"
    /\ FromInt(result.temperature) = temp
    /\ FromInt(result.pressure) = StatedPressure(d1, StatedOff(p, dT), StatedSens(p, dT))

\* The low temperature correction of c is the one stated, and positive.
Off2AsStated(temp, c, off2) == c.off2 = off2 /\ Positive(off2)

SecondOrderAsStated(p, d1, dT, temp, c) ==
    IF AtLeast(temp, 2000) THEN FirstOrderReturned(p, d1, dT, temp, c)
    ELSE Off2AsStated(temp, c, StatedOff2(temp))

SecondOrderAmended(p, d1, dT, temp, c) ==
    IF AtLeast(temp, 2000) THEN FirstOrderReturned(p, d1, dT, temp, c)
    ELSE /\ result.kind = "ok" => c.off2 # FromInt(0)
         /\ AtLeast(temp, -1500) =>
               /\ result.kind = "ok"
               /\ Off2AsStated(temp, c, StatedOff2(temp))

\* Both conversions of the last read_sample were read and compensated.
Compensated == lastOp = "read_sample" /\ comp # <<>>

\* C9 as stated, on the inputs whose compensation does not overflow: the
\* second-order correction is zero exactly when TEMP is at least 2000, where
\* the first-order values are returned; for every input with TEMP at most
\* 1999, OFF2 = (5 * (TEMP - 2000)^2) >> 1 > 0.
C9_SecondOrderAsStated ==
    (Compensated /\ ~comp[1].ovf) =>
        SecondOrderAsStated(prom[1], adc[1], StatedDT(prom[1], adc[2]),
                            StatedTemp(prom[1], StatedDT(prom[1], adc[2])), comp[1])

\* C9 amended: with TEMP at least 2000 the correction is zero and the
\* first-order values are returned; with TEMP below 2000 every sample
\* returned carries a nonzero OFF2; and OFF2 = (5 * (TEMP - 2000)^2) >> 1 > 0
\* for TEMP from -1500 to 1999.  Below -1500 the very low temperature branch
\* adds 7 * (TEMP + 1500)^2 to it.
C9_SecondOrderAmended ==
    Compensated =>
        SecondOrderAmended(prom[1], adc[1], StatedDT(prom[1], adc[2]),
                           StatedTemp(prom[1], StatedDT(prom[1], adc[2])), comp[1])

\* The datasheet's calibration at the raw temperature that gives TEMP = 2000
\* exactly: the sample returned is the first-order one.
C9_Witness ==
    /\ Compensated
    /\ promWords = DatasheetWords
    /\ adc = <<9085466, 8566784>>
    /\ result = [kind |-> "ok", err |-> "", temperature |-> 2000, pressure |-> 99993]

\* The second-order terms on integers of unbounded size.
StatedSecondOrder(dT, temp, low, sq) ==
    IF AtLeast(temp, 2000)
    THEN [t2 |-> FromInt(0), off2 |-> FromInt(0), sens2 |-> FromInt(0)]
    ELSE IF AtLeast(temp, -1500)
    THEN [t2 |-> Sar(Square(dT), 31), off2 |-> low, sens2 |-> Sar(low, 1)]
    ELSE [t2 |-> Sar(Square(dT), 31),
          off2 |-> Add(low, Mul(FromInt(7), sq)),
          sens2 |-> Add(Sar(low, 1), Sar(Mul(FromInt(11), sq), 1))]

\* The sample returned is the one the second-order terms s give.
ReturnedWith(p, d1, dT, temp, s) ==
    /\ result.kind = "ok"
    /\ FromInt(result.temperature) = Sub(temp, s.t2)
    /\ FromInt(result.pressure) =
          StatedPressure(d1, Sub(StatedOff(p, dT), s.off2), Sub(StatedSens(p, dT), s.sens2))

ReturnedAsStated(p, d1, dT, temp) ==
    ReturnedWith(p, d1, dT, temp,
                 StatedSecondOrder(dT, temp, StatedOff2(temp),
                                   Square(Add(temp, FromInt(1500)))))

\* C10: for 24-bit raw values and 16-bit coefficients the compensation never
\* fails, every intermediate value fits the width the code computes it in,
\* and the sample equals the one computed without any narrowing.
C10_NeverOverflows ==
    Compensated =>
        /\ result.kind = "ok"
        /\ \A k \in 1..Len(comp[1].steps) :
              Fits(comp[1].steps[k].x, comp[1].steps[k].w)
        /\ ReturnedAsStated(prom[1], adc[1], StatedDT(prom[1], adc[2]),
                            StatedTemp(prom[1], StatedDT(prom[1], adc[2])))

====
